---- MODULE Spec2Model ----
(***************************************************************************)
(* rssm: the reducer of src/src/index.tsx (createReducer), the provider's  *)
(* debounced persist callback, initial-state load and unmount flush, and   *)
(* the storage adapter of src/src/storage.ts (set / get / remove with TTL  *)
(* expiry and optional encoding).                                          *)
(*                                                                         *)
(* One instance (one provider, one storage key) is modelled.  A dispatch   *)
(* is one render of the provider: the argument getInitialState() of        *)
(* useReducer is evaluated (a storage read when persist is on), then the   *)
(* reducer is applied once to the dispatched action.  Under SpecFaults the *)
(* adapter calls of a step may throw; the try/catch blocks of the reducer, *)
(* of the debounced callback and of getInitialState are modelled by        *)
(* TryStorage and LoadInitialState.                                        *)
(***************************************************************************)
EXTENDS Integers, Sequences, FiniteSets, TLC

VARIABLES
    cfg,          \* the provider's props: name, persist, ttl, encrypt, logging, initialData
    mounted,      \* the provider is mounted
    state,        \* State<T>: [data, loading, error]
    pending,      \* arguments of debounced calls not yet invoked (use-debounce lastArgs)
    timerDue,     \* time at which the debounce timer may invoke the callback
    store,        \* window.localStorage: key -> <<>> or <<encoded item>>
    now,          \* Date.now(), in ms
    steps,        \* number of actions dispatched so far
    ev,           \* kind of the last step: init, dispatch, timer, teardown, construct
    last,         \* the last dispatched action, the state before it and what it did
    ops,          \* storage adapter calls made by the last step, in order
    lastDeb,      \* state produced by the latest action that called debouncedPersist
    lastDebTime,  \* time of that call
    cleared,      \* DESTROY/RESET processed and no persisting action dispatched since
    hadPending,   \* a debounced write was pending when the last teardown began
    burst,        \* debouncedPersist calls since the callback last had nothing pending
    burstWrites,  \* callback invocations since that burst began
    faulty,       \* the storage backend may fail in this run
    failed,       \* the adapter calls of the last step threw
    threw,        \* an exception left the handler of the last step
    wroteAt,      \* time of the last write that took effect under a TTL (-1: none)
    met,          \* the store entry the latest construction read, and when
    hook,         \* outcome of the latest useRssm() call of a consumer component
    other,        \* a second provider, of another name: mounted, state, pending, timerDue
    folded,       \* the reducer folded over the actions dispatched since construction
    adapter       \* the latest direct call of the storage adapter, its result, and
                  \* per key the latest set not yet removed

vars == <<cfg, mounted, state, pending, timerDue, store, now, steps, ev, last,
          ops, lastDeb, lastDebTime, cleared, hadPending, burst, burstWrites,
          faulty, failed, threw, wroteAt, met, hook, other, folded, adapter>>

----------------------------------------------------------------------------
(* Bounds of the model *)

MaxSteps == 2
MaxTime == 2000
TickStep == 1000

(* Program constants *)

DebounceDelay == 500
MsPerSecond == 1000
NullTtl == -1

----------------------------------------------------------------------------
(* Values *)

NullData == [null |-> 0]
NoError == "null"

\* the keys of the schema; "tag" is a key the schema does not know
SchemaFields == {"id", "count"}

\* payloads: two valid objects, a valid object carrying a key the schema does
\* not know, three partial objects (each fails the schema) and the empty object
Objects ==
    { [id |-> 1, count |-> 1], [id |-> 1, count |-> 2],
      [id |-> 1, count |-> 1, tag |-> 1],
      [count |-> 2], [id |-> 1], [tag |-> 1], [f \in {} |-> 1] }

ErrorMsgs == {"e1"}

Name == "rssm"

\* the name of a second provider
OtherName == "other"

EmptyState == [data |-> NullData, loading |-> FALSE, error |-> NoError]

\* z.object({...}).parse(v): throws unless every schema field is present,
\* returns a copy holding the schema's keys only
SchemaOk(d) == d # NullData /\ SchemaFields \subseteq DOMAIN d

SchemaParse(d) == [f \in SchemaFields |-> d[f]]

\* { ...currentData, ...payload }
Merge(d, p) ==
    [f \in (DOMAIN d) \cup (DOMAIN p) |-> IF f \in DOMAIN p THEN p[f] ELSE d[f]]

----------------------------------------------------------------------------
(* Storage adapter: LocalStorage of src/src/storage.ts *)

\* the key isStorageAvailable() writes and removes to test the backend
ProbeKey == "__storage_test__"

Keys == {Name, OtherName, ProbeKey}

EmptyStore == [k \in Keys |-> <<>>]

\* encode: JSON.stringify, then base64 when encrypt is set
Encode(item, encrypt) == [enc |-> encrypt, item |-> item]

\* decode: JSON.parse of a base64 text throws unless decrypt is set; with
\* decrypt set, plain JSON is parsed by the fallback branch
DecodeOk(stored, decrypt) == decrypt \/ ~stored.enc

Decode(stored, decrypt) == stored.item

\* isStorageAvailable(): setItem then removeItem of the probe key; the store
\* it leaves behind (the backend is available)
IsStorageAvailable(st) == [st EXCEPT ![ProbeKey] = <<>>]

\* expires: ttl ? Date.now() + ttl * 1000 : undefined (0 stands for undefined;
\* a ttl of null or 0 is falsy)
Expires(ttl, t) ==
    IF ttl # 0 /\ ttl # NullTtl THEN t + ttl * MsPerSecond ELSE 0

StorageSet(st, key, value, ttl, encrypt, t) ==
    [IsStorageAvailable(st) EXCEPT ![key] =
        <<Encode([value |-> value, expires |-> Expires(ttl, t)], encrypt)>>]

StorageRemove(st, key) == [IsStorageAvailable(st) EXCEPT ![key] = <<>>]

\* item.expires && Date.now() > item.expires
\* get returning an item whatever its expiry
ExpiredNever(item, t) == FALSE

Expired(item, t) == item.expires # 0 /\ t > item.expires

\* get: the value read (<<>> for null) and the store it leaves behind (an
\* expired item is removed); a decode failure is caught and reads as null
StorageGet(st, key, decrypt, t) ==
    LET sp == IsStorageAvailable(st)
    IN IF sp[key] = <<>> THEN [value |-> <<>>, store |-> sp]
       ELSE IF ~DecodeOk(sp[key][1], decrypt) THEN [value |-> <<>>, store |-> sp]
       ELSE LET item == Decode(sp[key][1], decrypt)
            IN IF Expired(item, t)
               THEN [value |-> <<>>, store |-> StorageRemove(sp, key)]
               ELSE [value |-> <<item.value>>, store |-> sp]

\* adapter calls, as the instance makes them
SetOp(key, value, ttl, encrypt) ==
    [op |-> "set", key |-> key, value |-> value, ttl |-> ttl, encrypt |-> encrypt]

RemoveOp(key) ==
    [op |-> "remove", key |-> key, value |-> EmptyState, ttl |-> 0, encrypt |-> FALSE]

GetOp(key) ==
    [op |-> "get", key |-> key, value |-> EmptyState, ttl |-> 0, encrypt |-> FALSE]

ApplyOp(st, o, t) ==
    IF o.op = "set" THEN StorageSet(st, o.key, o.value, o.ttl, o.encrypt, t)
    ELSE IF o.op = "remove" THEN StorageRemove(st, o.key)
    ELSE StorageGet(st, o.key, FALSE, t).store

RECURSIVE ApplyOps(_, _, _)
ApplyOps(st, os, t) ==
    IF os = <<>> THEN st ELSE ApplyOps(ApplyOp(st, Head(os), t), Tail(os), t)

\* the calls of one kind among a step's adapter calls
OpsOf(os, kind) == SelectSeq(os, LAMBDA o : o.op = kind)

----------------------------------------------------------------------------
(* Actions and the reducer: createReducer of src/src/index.tsx *)

\* the closed set of ActionType
ActionTypes ==
    {"CREATE", "READ", "UPDATE", "DESTROY", "SET_LOADING", "SET_ERROR", "RESET"}

\* an action: its type and its payload, by the payload's kind; "UNKNOWN" is a
\* type outside the closed set of ActionType
Act(type, data, flag, msg) ==
    [type |-> type, data |-> data, flag |-> flag, msg |-> msg]

Actions ==
    {Act(t, d, FALSE, NoError) : t \in {"CREATE", "READ", "UPDATE"}, d \in Objects}
    \cup {Act(t, NullData, FALSE, NoError) : t \in {"DESTROY", "RESET", "UNKNOWN"}}
    \cup {Act("SET_LOADING", NullData, b, NoError) : b \in BOOLEAN}
    \cup {Act("SET_ERROR", NullData, FALSE, m) : m \in ErrorMsgs \cup {NoError}}

\* if (config.logging) log.info / log.warn / log.error
\* a logger call made whatever the logging flag
LogAlways(c, msg) == <<msg>>

LogIf(c, msg) == IF c.logging THEN <<msg>> ELSE <<>>

\* config.ttl || 0
TtlOpt(c) == IF c.ttl = NullTtl THEN 0 ELSE c.ttl

\* what one reducer call yields: the state returned, whether it is the very
\* state passed in, the adapter calls made, the argument of debouncedPersist
\* (<<>> when not called) and the logger calls
Result(s, noop, os, sched, logs) ==
    [state |-> s, noop |-> noop, ops |-> os, sched |-> sched, logs |-> logs]

\* CREATE written as a spread of the previous state: loading and error survive
ReduceCreateKeepsFlags(c, s, a) ==
    LET ok == SchemaOk(a.data)
        data == IF ok THEN SchemaParse(a.data) ELSE a.data
        newState == [s EXCEPT !.data = data]
    IN Result(newState, FALSE,
              IF c.persist THEN <<SetOp(c.name, newState, TtlOpt(c), c.encrypt)>>
                           ELSE <<>>,
              <<>>,
              (IF ok THEN <<>> ELSE LogIf(c, "warn:validation"))
                \o (IF c.persist THEN LogIf(c, "info:persisted") ELSE <<>>))

\* CREATE persisting through the debounced path instead of writing at once
ReduceCreateDebounced(c, s, a) ==
    LET ok == SchemaOk(a.data)
        data == IF ok THEN SchemaParse(a.data) ELSE a.data
        newState == [data |-> data, loading |-> FALSE, error |-> NoError]
    IN Result(newState, FALSE, <<>>,
              IF c.persist THEN <<newState>> ELSE <<>>,
              IF ok THEN <<>> ELSE LogIf(c, "warn:validation"))

\* CREATE rejecting a payload that fails the schema
ReduceCreateRejects(c, s, a) ==
    LET ok == SchemaOk(a.data)
        newState == [data |-> SchemaParse(a.data), loading |-> FALSE,
                     error |-> NoError]
    IN IF ~ok THEN Result(s, TRUE, <<>>, <<>>, LogIf(c, "warn:validation"))
       ELSE Result(newState, FALSE,
                   IF c.persist
                   THEN <<SetOp(c.name, newState, TtlOpt(c), c.encrypt)>>
                   ELSE <<>>,
                   <<>>,
                   IF c.persist THEN LogIf(c, "info:persisted") ELSE <<>>)

ReduceCreate(c, s, a) ==
    LET ok == SchemaOk(a.data)
        data == IF ok THEN SchemaParse(a.data) ELSE a.data
        newState == [data |-> data, loading |-> FALSE, error |-> NoError]
    IN Result(newState, FALSE,
              IF c.persist THEN <<SetOp(c.name, newState, TtlOpt(c), c.encrypt)>>
                           ELSE <<>>,
              <<>>,
              (IF ok THEN <<>> ELSE LogIf(c, "warn:validation"))
                \o (IF c.persist THEN LogIf(c, "info:persisted") ELSE <<>>))

\* UPDATE replacing the data by the payload instead of merging
ReduceUpdateReplaces(c, s, a) ==
    LET currentData == s.data
        merged == a.data
    IN IF currentData # NullData /\ currentData = merged
       THEN Result(s, TRUE, <<>>, <<>>, LogIf(c, "info:nochange"))
       ELSE LET ok == SchemaOk(merged)
                newData == IF ok THEN SchemaParse(merged) ELSE merged
                newState == [s EXCEPT !.data = newData, !.error = NoError]
            IN Result(newState, FALSE, <<>>,
                      IF c.persist THEN <<newState>> ELSE <<>>,
                      IF ok THEN <<>> ELSE LogIf(c, "warn:validation"))

\* UPDATE without the equality short-circuit
ReduceUpdateNoSkip(c, s, a) ==
    LET currentData == s.data
        merged == IF currentData # NullData THEN Merge(currentData, a.data)
                                            ELSE a.data
        ok == SchemaOk(merged)
        newData == IF ok THEN SchemaParse(merged) ELSE merged
        newState == [s EXCEPT !.data = newData, !.error = NoError]
    IN Result(newState, FALSE, <<>>,
              IF c.persist THEN <<newState>> ELSE <<>>,
              IF ok THEN <<>> ELSE LogIf(c, "warn:validation"))

\* UPDATE reporting a validation failure through the error field
ReduceUpdateFlagsInvalid(c, s, a) ==
    LET currentData == s.data
        merged == IF currentData # NullData THEN Merge(currentData, a.data)
                                            ELSE a.data
    IN IF currentData # NullData /\ currentData = merged
       THEN Result(s, TRUE, <<>>, <<>>, LogIf(c, "info:nochange"))
       ELSE LET ok == SchemaOk(merged)
                newData == IF ok THEN SchemaParse(merged) ELSE merged
                newState == [s EXCEPT !.data = newData,
                                      !.error = IF ok THEN NoError ELSE "e1"]
            IN Result(newState, FALSE, <<>>,
                      IF c.persist THEN <<newState>> ELSE <<>>,
                      IF ok THEN <<>> ELSE LogIf(c, "warn:validation"))

\* UPDATE applying the short-circuit to an empty payload on absent data
ReduceUpdateSkipsEmpty(c, s, a) ==
    LET currentData == s.data
        merged == IF currentData # NullData THEN Merge(currentData, a.data)
                                            ELSE a.data
    IN IF \/ currentData # NullData /\ currentData = merged
          \/ currentData = NullData /\ DOMAIN merged = {}
       THEN Result(s, TRUE, <<>>, <<>>, LogIf(c, "info:nochange"))
       ELSE LET ok == SchemaOk(merged)
                newData == IF ok THEN SchemaParse(merged) ELSE merged
                newState == [s EXCEPT !.data = newData, !.error = NoError]
            IN Result(newState, FALSE, <<>>,
                      IF c.persist THEN <<newState>> ELSE <<>>,
                      IF ok THEN <<>> ELSE LogIf(c, "warn:validation"))

\* UPDATE whose short-circuit clears the error
ReduceUpdateSkipClearsError(c, s, a) ==
    LET currentData == s.data
        merged == IF currentData # NullData THEN Merge(currentData, a.data)
                                            ELSE a.data
    IN IF currentData # NullData /\ currentData = merged
       THEN Result([s EXCEPT !.error = NoError], TRUE, <<>>, <<>>,
                   LogIf(c, "info:nochange"))
       ELSE LET ok == SchemaOk(merged)
                newData == IF ok THEN SchemaParse(merged) ELSE merged
                newState == [s EXCEPT !.data = newData, !.error = NoError]
            IN Result(newState, FALSE, <<>>,
                      IF c.persist THEN <<newState>> ELSE <<>>,
                      IF ok THEN <<>> ELSE LogIf(c, "warn:validation"))

\* UPDATE resetting loading as CREATE does
ReduceUpdateResetsLoading(c, s, a) ==
    LET currentData == s.data
        merged == IF currentData # NullData THEN Merge(currentData, a.data)
                                            ELSE a.data
    IN IF currentData # NullData /\ currentData = merged
       THEN Result(s, TRUE, <<>>, <<>>, LogIf(c, "info:nochange"))
       ELSE LET ok == SchemaOk(merged)
                newData == IF ok THEN SchemaParse(merged) ELSE merged
                newState == [data |-> newData, loading |-> FALSE,
                             error |-> NoError]
            IN Result(newState, FALSE, <<>>,
                      IF c.persist THEN <<newState>> ELSE <<>>,
                      IF ok THEN <<>> ELSE LogIf(c, "warn:validation"))

ReduceUpdate(c, s, a) ==
    LET currentData == s.data
        merged == IF currentData # NullData THEN Merge(currentData, a.data)
                                            ELSE a.data
    IN IF currentData # NullData /\ currentData = merged
       THEN Result(s, TRUE, <<>>, <<>>, LogIf(c, "info:nochange"))
       ELSE LET ok == SchemaOk(merged)
                newData == IF ok THEN SchemaParse(merged) ELSE merged
                newState == [s EXCEPT !.data = newData, !.error = NoError]
            IN Result(newState, FALSE, <<>>,
                      IF c.persist THEN <<newState>> ELSE <<>>,
                      IF ok THEN <<>> ELSE LogIf(c, "warn:validation"))

\* DESTROY removing the record without looking at config.persist
ReduceDestroyUnguarded(c, s, a) ==
    Result(EmptyState, FALSE, <<RemoveOp(c.name)>>, <<>>,
           LogIf(c, "info:removed"))

ReduceDestroy(c, s, a) ==
    Result(EmptyState, FALSE,
           IF c.persist THEN <<RemoveOp(c.name)>> ELSE <<>>,
           <<>>,
           IF c.persist THEN LogIf(c, "info:removed") ELSE <<>>)

\* SET_LOADING without the equality short-circuit
ReduceSetLoadingNoSkip(c, s, a) ==
    LET newState == [s EXCEPT !.loading = a.flag]
    IN Result(newState, FALSE, <<>>,
              IF c.persist THEN <<newState>> ELSE <<>>, <<>>)

\* SET_LOADING(true) clearing the error it finds
ReduceSetLoadingClearsError(c, s, a) ==
    IF s.loading = a.flag
    THEN Result(s, TRUE, <<>>, <<>>, <<>>)
    ELSE LET newState == [s EXCEPT !.loading = a.flag,
                                   !.error = IF a.flag THEN NoError ELSE @]
         IN Result(newState, FALSE, <<>>,
                   IF c.persist THEN <<newState>> ELSE <<>>, <<>>)

ReduceSetLoading(c, s, a) ==
    IF s.loading = a.flag
    THEN Result(s, TRUE, <<>>, <<>>, <<>>)
    ELSE LET newState == [s EXCEPT !.loading = a.flag]
         IN Result(newState, FALSE, <<>>,
                   IF c.persist THEN <<newState>> ELSE <<>>, <<>>)

\* SET_ERROR leaving loading as it was
ReduceSetErrorKeepsLoading(c, s, a) ==
    IF s.error = a.msg
    THEN Result(s, TRUE, <<>>, <<>>, <<>>)
    ELSE LET newState == [s EXCEPT !.error = a.msg]
         IN Result(newState, FALSE, <<>>,
                   IF c.persist THEN <<newState>> ELSE <<>>,
                   IF c.persist /\ a.msg # NoError
                   THEN LogIf(c, "warn:errorPersisted") ELSE <<>>)

ReduceSetError(c, s, a) ==
    IF s.error = a.msg
    THEN Result(s, TRUE, <<>>, <<>>, <<>>)
    ELSE LET newState == [s EXCEPT !.error = a.msg, !.loading = FALSE]
         IN Result(newState, FALSE, <<>>,
                   IF c.persist THEN <<newState>> ELSE <<>>,
                   IF c.persist /\ a.msg # NoError
                   THEN LogIf(c, "warn:errorPersisted") ELSE <<>>)

\* RESET skipping the removal when there is no data to clear
ReduceResetSkipsEmpty(c, s, a) ==
    Result(EmptyState, FALSE,
           IF c.persist /\ s.data # NullData THEN <<RemoveOp(c.name)>> ELSE <<>>,
           <<>>,
           IF c.persist THEN LogIf(c, "info:reset") ELSE <<>>)

\* RESET going back to the initialData prop
ReduceResetToInitial(c, s, a) ==
    Result([data |-> c.initialData, loading |-> FALSE, error |-> NoError], FALSE,
           IF c.persist THEN <<RemoveOp(c.name)>> ELSE <<>>,
           <<>>,
           IF c.persist THEN LogIf(c, "info:reset") ELSE <<>>)

ReduceReset(c, s, a) ==
    Result(EmptyState, FALSE,
           IF c.persist THEN <<RemoveOp(c.name)>> ELSE <<>>,
           <<>>,
           IF c.persist THEN LogIf(c, "info:reset") ELSE <<>>)

\* a reducer whose default branch clears the record as DESTROY does
ReducerUnknownClears(c, s, a) ==
    LET r == CASE a.type \in {"CREATE", "READ"} -> ReduceCreate(c, s, a)
               [] a.type = "UPDATE" -> ReduceUpdate(c, s, a)
               [] a.type = "DESTROY" -> ReduceDestroy(c, s, a)
               [] a.type = "SET_LOADING" -> ReduceSetLoading(c, s, a)
               [] a.type = "SET_ERROR" -> ReduceSetError(c, s, a)
               [] a.type = "RESET" -> ReduceReset(c, s, a)
               [] OTHER -> ReduceDestroy(c, s, a)
    IN [r EXCEPT !.logs = LogIf(c, "info:action") \o r.logs]

Reducer(c, s, a) ==
    LET r == CASE a.type \in {"CREATE", "READ"} -> ReduceCreate(c, s, a)
               [] a.type = "UPDATE" -> ReduceUpdate(c, s, a)
               [] a.type = "DESTROY" -> ReduceDestroy(c, s, a)
               [] a.type = "SET_LOADING" -> ReduceSetLoading(c, s, a)
               [] a.type = "SET_ERROR" -> ReduceSetError(c, s, a)
               [] a.type = "RESET" -> ReduceReset(c, s, a)
               [] OTHER -> Result(s, TRUE, <<>>, <<>>, <<>>)
    IN [r EXCEPT !.logs = LogIf(c, "info:action") \o r.logs]

----------------------------------------------------------------------------
(* The provider: RssmProvider of src/src/index.tsx *)

\* getInitialState: the state the provider starts from, the adapter calls made
\* and the logger calls
\* an initial load that keeps the stored data and resets the stored flags
GetInitialStateResetsFlags(c, st, t) ==
    LET got == IF c.persist THEN StorageGet(st, c.name, FALSE, t).value ELSE <<>>
        rd == IF c.persist THEN <<GetOp(c.name)>> ELSE <<>>
    IN IF got # <<>> /\ got[1].data # NullData
       THEN LET stored == got[1]
                ok == SchemaOk(stored.data)
            IN [state |-> [data |-> IF ok THEN SchemaParse(stored.data)
                                          ELSE stored.data,
                           loading |-> FALSE,
                           error |-> NoError],
                ops |-> rd,
                logs |-> LogIf(c, IF ok THEN "info:loaded" ELSE "warn:stored")]
       ELSE LET ok == c.initialData = NullData \/ SchemaOk(c.initialData)
            IN [state |-> [data |-> IF c.initialData # NullData /\ ok
                                    THEN SchemaParse(c.initialData)
                                    ELSE c.initialData,
                           loading |-> FALSE,
                           error |-> NoError],
                ops |-> rd,
                logs |-> IF ok THEN <<>> ELSE LogIf(c, "warn:initial")]

\* an initial load that adopts any stored record, its data null or not
GetInitialStateAdoptsNull(c, st, t) ==
    LET got == IF c.persist THEN StorageGet(st, c.name, FALSE, t).value ELSE <<>>
        rd == IF c.persist THEN <<GetOp(c.name)>> ELSE <<>>
    IN IF got # <<>>
       THEN LET stored == got[1]
                ok == SchemaOk(stored.data)
            IN [state |-> [stored EXCEPT
                              !.data = IF ok THEN SchemaParse(stored.data)
                                             ELSE stored.data],
                ops |-> rd,
                logs |-> LogIf(c, IF ok THEN "info:loaded" ELSE "warn:stored")]
       ELSE LET ok == c.initialData = NullData \/ SchemaOk(c.initialData)
            IN [state |-> [data |-> IF c.initialData # NullData /\ ok
                                    THEN SchemaParse(c.initialData)
                                    ELSE c.initialData,
                           loading |-> FALSE,
                           error |-> NoError],
                ops |-> rd,
                logs |-> IF ok THEN <<>> ELSE LogIf(c, "warn:initial")]

\* an initial load that writes the state it starts from back to the store
GetInitialStatePersists(c, st, t) ==
    LET got == IF c.persist THEN StorageGet(st, c.name, FALSE, t).value ELSE <<>>
        rd == IF c.persist THEN <<GetOp(c.name)>> ELSE <<>>
        wr(s) == IF c.persist THEN <<SetOp(c.name, s, TtlOpt(c), c.encrypt)>>
                              ELSE <<>>
    IN IF got # <<>> /\ got[1].data # NullData
       THEN LET stored == got[1]
                ok == SchemaOk(stored.data)
                s0 == [stored EXCEPT !.data = IF ok THEN SchemaParse(stored.data)
                                                    ELSE stored.data]
            IN [state |-> s0,
                ops |-> rd \o wr(s0),
                logs |-> LogIf(c, IF ok THEN "info:loaded" ELSE "warn:stored")]
       ELSE LET ok == c.initialData = NullData \/ SchemaOk(c.initialData)
                s0 == [data |-> IF c.initialData # NullData /\ ok
                                THEN SchemaParse(c.initialData)
                                ELSE c.initialData,
                       loading |-> FALSE,
                       error |-> NoError]
            IN [state |-> s0,
                ops |-> rd \o wr(s0),
                logs |-> IF ok THEN <<>> ELSE LogIf(c, "warn:initial")]

GetInitialState(c, st, t) ==
    LET got == IF c.persist THEN StorageGet(st, c.name, FALSE, t).value ELSE <<>>
        rd == IF c.persist THEN <<GetOp(c.name)>> ELSE <<>>
    IN IF got # <<>> /\ got[1].data # NullData
       THEN LET stored == got[1]
                ok == SchemaOk(stored.data)
            IN [state |-> [stored EXCEPT
                              !.data = IF ok THEN SchemaParse(stored.data)
                                             ELSE stored.data],
                ops |-> rd,
                logs |-> LogIf(c, IF ok THEN "info:loaded" ELSE "warn:stored")]
       ELSE LET ok == c.initialData = NullData \/ SchemaOk(c.initialData)
            IN [state |-> [data |-> IF c.initialData # NullData /\ ok
                                    THEN SchemaParse(c.initialData)
                                    ELSE c.initialData,
                           loading |-> FALSE,
                           error |-> NoError],
                ops |-> rd,
                logs |-> IF ok THEN <<>> ELSE LogIf(c, "warn:initial")]

\* a call debouncedPersist(s): use-debounce keeps the arguments of the latest
\* call only and (re)starts the delay
\* every call keeps its own delayed invocation (no coalescing)
DebouncedPersistQueues(pend, s) == Append(pend, s)

DebouncedPersist(pend, s) == <<s>>

\* the debounced callback: storage.set(config.name, state, {ttl, encrypt})
\* the callback writing under one key for every provider
PersistCallbackSharedKey(c, s) == <<SetOp(Name, s, TtlOpt(c), c.encrypt)>>

\* a callback that drops the write
PersistCallbackSkips(c, s) == <<>>

\* a callback writing without the ttl option
PersistCallbackNoTtl(c, s) == <<SetOp(c.name, s, 0, c.encrypt)>>

PersistCallback(c, s) == <<SetOp(c.name, s, TtlOpt(c), c.encrypt)>>

\* the logger call of the debounced callback once the write is made
PersistCallbackLogs(c) == LogIf(c, "info:persisted")

\* debouncedPersist.flush(): invokes the callback now when a call is pending
\* cleanup cancelling the pending call instead of flushing it
FlushCancels(c, pend) == <<>>

\* a flush that invokes the callback twice for one pending call
FlushTwice(c, pend) ==
    IF pend = <<>> THEN <<>>
    ELSE PersistCallback(c, Head(pend)) \o PersistCallback(c, Head(pend))

Flush(c, pend) == IF pend = <<>> THEN <<>> ELSE PersistCallback(c, Head(pend))

\* try { storage.set / storage.remove } catch (error) { logger.error }: the
\* calls that took effect, whether an exception leaves the block, and the
\* logger calls (the success message is skipped when the call throws)
\* the storage call made outside any try block
StorageUncaught(c, os, logs, fails) ==
    [done |-> IF fails THEN <<>> ELSE os,
     threw |-> fails /\ os # <<>>,
     logs |-> logs]

TryStorage(c, os, logs, fails) ==
    [done |-> IF fails THEN <<>> ELSE os,
     threw |-> FALSE,
     logs |-> IF fails /\ os # <<>>
              THEN SelectSeq(logs, LAMBDA m : m \notin {"info:persisted",
                                                        "info:removed",
                                                        "info:reset"})
                     \o LogIf(c, "error:storage")
              ELSE logs]

\* getInitialState with a storage.get that may throw: the catch block logs and
\* control falls through to the initialData branch
\* getInitialState letting the exception of storage.get out
LoadInitialStateUncaught(c, st, t, fails) ==
    LET g == GetInitialState(c, st, t)
    IN [state |-> g.state, ops |-> g.ops, logs |-> g.logs,
        threw |-> c.persist /\ fails]

LoadInitialState(c, st, t, fails) ==
    IF c.persist /\ fails
    THEN LET g == GetInitialState(c, EmptyStore, t)
         IN [state |-> g.state, ops |-> g.ops,
             logs |-> LogIf(c, "error:load") \o g.logs, threw |-> FALSE]
    ELSE LET g == GetInitialState(c, st, t)
         IN [state |-> g.state, ops |-> g.ops, logs |-> g.logs, threw |-> FALSE]

\* the name given to createRssm(name)
FactoryName == "Machine"

\* the props of a provider mounted under another name
Named(c, n) == [c EXCEPT !.name = n]

\* the actions object of useRssm: each entry and the type it dispatches
ActionCreators ==
    [create |-> "CREATE", read |-> "READ", update |-> "UPDATE",
     destroy |-> "DESTROY", setLoading |-> "SET_LOADING",
     setError |-> "SET_ERROR", reset |-> "RESET"]

\* the action an entry of the actions object dispatches for its argument
\* (data for create / read / update, a flag for setLoading, a message or
\* null for setError, none for destroy / reset)
Creator(n, d, b, m) ==
    Act(ActionCreators[n],
        IF n \in {"create", "read", "update"} THEN d ELSE NullData,
        IF n = "setLoading" THEN b ELSE FALSE,
        IF n = "setError" THEN m ELSE NoError)

\* every action the actions object can dispatch
HookActions ==
    {Creator(n, d, b, m) : n \in DOMAIN ActionCreators, d \in Objects,
                           b \in BOOLEAN, m \in ErrorMsgs \cup {NoError}}

\* useRssm(): context is <<>> when no provider of the factory is in scope,
\* <<state>> otherwise; the call throws or returns {...state, actions}
\* useRssm answering with an empty state when no provider is in scope
UseRssmDefaults(context) ==
    LET s == IF context = <<>> THEN EmptyState ELSE context[1]
    IN [threw |-> FALSE, message |-> <<>>,
        value |-> <<[data |-> s.data, loading |-> s.loading,
                     error |-> s.error, actions |-> ActionCreators]>>]

UseRssm(context) ==
    IF context = <<>>
    THEN [threw |-> TRUE,
          message |-> <<FactoryName, " must be used within ", FactoryName,
                        "Provider">>,
          value |-> <<>>]
    ELSE [threw |-> FALSE, message |-> <<>>,
          value |-> <<[data |-> context[1].data, loading |-> context[1].loading,
                       error |-> context[1].error, actions |-> ActionCreators]>>]

NoHook ==
    [called |-> FALSE, context |-> <<>>,
     result |-> [threw |-> FALSE, message |-> <<>>, value |-> <<>>]]

NoAction == Act("NONE", NullData, FALSE, NoError)

NoLast ==
    [action |-> NoAction, pre |-> EmptyState, noop |-> TRUE, sched |-> <<>>,
     logs |-> <<>>, repeat |-> FALSE, firstSched |-> 0, firstDiff |-> FALSE,
     again |-> FALSE]

\* no direct call of the adapter made yet
NoAdapter ==
    [call |-> "none", key |-> Name, decrypt |-> FALSE, at |-> 0, result |-> <<>>,
     written |-> [k \in Keys |-> <<>>], purged |-> [k \in Keys |-> FALSE]]

InitialDatas == {NullData, [id |-> 1, count |-> 1]}

\* the props the instance is mounted with: persistence and logging on or off,
\* no TTL, no encoding
Configs ==
    [name : {Name}, persist : BOOLEAN, ttl : {NullTtl}, encrypt : {FALSE},
     logging : BOOLEAN, initialData : InitialDatas]

\* persistence on, with and without a TTL (in seconds) and encoding
OptConfigs ==
    [name : {Name}, persist : {TRUE}, ttl : {NullTtl, 1}, encrypt : BOOLEAN,
     logging : {FALSE}, initialData : {NullData}]

\* persistence on with a TTL of one second, over a backend that may fail
FaultConfigs ==
    [name : {Name}, persist : {TRUE}, ttl : {1}, encrypt : {FALSE},
     logging : {FALSE}, initialData : InitialDatas]

InitWith(configs, faults) ==
    /\ cfg \in configs
    /\ mounted = TRUE
    /\ state = GetInitialState(cfg, EmptyStore, 0).state
    /\ pending = <<>>
    /\ timerDue = 0
    /\ store = EmptyStore
    /\ now = 0
    /\ steps = 0
    /\ ev = "init"
    /\ last = NoLast
    /\ ops = GetInitialState(cfg, EmptyStore, 0).ops
    /\ lastDeb = EmptyState
    /\ lastDebTime = 0
    /\ cleared = FALSE
    /\ hadPending = FALSE
    /\ burst = 0
    /\ burstWrites = 0
    /\ faulty = faults
    /\ failed = FALSE
    /\ threw = FALSE
    /\ wroteAt = -1
    /\ met = [read |-> cfg.persist, entry |-> <<>>, at |-> 0]
    /\ hook = NoHook
    /\ folded = GetInitialState(cfg, EmptyStore, 0).state
    /\ adapter = NoAdapter
    /\ other = [mounted |-> TRUE,
                state |-> GetInitialState(Named(cfg, OtherName), EmptyStore, 0).state,
                pending |-> <<>>,
                timerDue |-> 0]

Init == InitWith(Configs, FALSE)

InitOpts == InitWith(OptConfigs, FALSE)

InitFaults == InitWith(FaultConfigs, TRUE)

\* a provider with a consumer component that calls the accessor hook
HookConfigs ==
    [name : {Name}, persist : {TRUE}, ttl : {NullTtl}, encrypt : {FALSE},
     logging : {FALSE}, initialData : {[id |-> 1, count |-> 1]}]

InitHook == InitWith(HookConfigs, FALSE)

\* two providers of different names with the same props otherwise
TwoConfigs ==
    [name : {Name}, persist : {TRUE}, ttl : {NullTtl}, encrypt : {FALSE},
     logging : {FALSE}, initialData : {NullData}]

InitTwo == InitWith(TwoConfigs, FALSE)

\* the actions dispatched when two providers are mounted
TwoActions ==
    {Act("CREATE", [id |-> 1, count |-> 1], FALSE, NoError),
     Act("UPDATE", [count |-> 2], FALSE, NoError),
     Act("DESTROY", NullData, FALSE, NoError),
     Act("SET_LOADING", NullData, TRUE, NoError),
     Act("SET_ERROR", NullData, FALSE, "e1")}

\* dispatch(a): the provider renders; getInitialState() is evaluated as the
\* argument of useReducer (its result is dropped), then the reducer runs;
\* f: the adapter calls of this step throw (taken when the reducer makes one)
Dispatch(a, f) ==
    /\ mounted
    /\ steps < MaxSteps
    /\ f => faulty /\ Reducer(cfg, state, a).ops # <<>>
    /\ LET rd == LoadInitialState(cfg, store, now, f).ops
           r == Reducer(cfg, state, a)
           t == TryStorage(cfg, r.ops, r.logs, f)
           done == (IF f THEN <<>> ELSE rd) \o t.done
           called == r.sched # <<>>
       IN /\ state' = IF t.threw THEN state ELSE r.state
          /\ ops' = rd \o r.ops
          /\ store' = ApplyOps(store, done, now)
          /\ threw' = t.threw
          /\ wroteAt' = IF cfg.ttl # NullTtl /\ OpsOf(done, "set") # <<>>
                        THEN now ELSE wroteAt
          /\ pending' = IF called THEN DebouncedPersist(pending, r.sched[1])
                                  ELSE pending
          /\ timerDue' = IF called THEN now + DebounceDelay ELSE timerDue
          /\ lastDeb' = IF called THEN r.state ELSE lastDeb
          /\ lastDebTime' = IF called THEN now ELSE lastDebTime
          /\ burst' = IF ~called THEN burst
                      ELSE IF pending = <<>> THEN 1 ELSE burst + 1
          /\ burstWrites' = IF called /\ pending = <<>> THEN 0 ELSE burstWrites
          /\ last' = [action |-> a, pre |-> state, noop |-> r.noop,
                      sched |-> r.sched, logs |-> t.logs,
                      repeat |-> /\ a.type = "UPDATE"
                                 /\ last.action = a
                                 /\ last.pre.data # NullData,
                      firstSched |-> Len(last.sched),
                      firstDiff |-> /\ last.action.type = "UPDATE"
                                    /\ last.pre.data # NullData
                                    /\ Merge(last.pre.data, last.action.data)
                                         # last.pre.data,
                      again |-> last.action = a]
          /\ cleared' = IF a.type \in {"DESTROY", "RESET"} THEN cfg.persist
                        ELSE IF a.type \in {"CREATE", "READ"} \/ ~r.noop THEN FALSE
                        ELSE cleared
    /\ steps' = steps + 1
    /\ ev' = "dispatch"
    /\ failed' = f
    /\ met' = [read |-> FALSE, entry |-> <<>>, at |-> 0]
    /\ folded' = Reducer(cfg, folded, a).state
    /\ UNCHANGED <<adapter, cfg, mounted, now, hadPending, faulty, hook, other>>

\* the debounce timer expires: the callback is invoked with the pending arguments
\* a callback that also puts the snapshot it writes back into the state
TimerFireRestores(f) ==
    /\ mounted
    /\ pending # <<>>
    /\ now >= timerDue
    /\ f => faulty
    /\ LET t == TryStorage(cfg, PersistCallback(cfg, Head(pending)),
                          PersistCallbackLogs(cfg), f)
       IN /\ ops' = PersistCallback(cfg, Head(pending))
          /\ store' = ApplyOps(store, t.done, now)
          /\ threw' = t.threw
          /\ wroteAt' = IF cfg.ttl # NullTtl /\ t.done # <<>> THEN now ELSE wroteAt
    /\ state' = Head(pending)
    /\ pending' = Tail(pending)
    /\ burstWrites' = burstWrites + 1
    /\ ev' = "timer"
    /\ failed' = f
    /\ UNCHANGED <<adapter, cfg, mounted, timerDue, now, steps, last, lastDeb,
                   lastDebTime, cleared, hadPending, burst, faulty, met, hook,
                   other, folded>>

TimerFire(f) ==
    /\ mounted
    /\ pending # <<>>
    /\ now >= timerDue
    /\ f => faulty
    /\ LET t == TryStorage(cfg, PersistCallback(cfg, Head(pending)),
                          PersistCallbackLogs(cfg), f)
       IN /\ ops' = PersistCallback(cfg, Head(pending))
          /\ store' = ApplyOps(store, t.done, now)
          /\ threw' = t.threw
          /\ wroteAt' = IF cfg.ttl # NullTtl /\ t.done # <<>> THEN now ELSE wroteAt
    /\ pending' = Tail(pending)
    /\ burstWrites' = burstWrites + 1
    /\ ev' = "timer"
    /\ failed' = f
    /\ UNCHANGED <<adapter, cfg, mounted, state, timerDue, now, steps, last, lastDeb,
                   lastDebTime, cleared, hadPending, burst, faulty, met, hook,
                   other, folded>>

\* unmount: the effect cleanup calls debouncedPersist.flush()
Teardown(f) ==
    /\ mounted
    /\ f => faulty /\ pending # <<>>
    /\ mounted' = FALSE
    /\ hadPending' = (pending # <<>>)
    /\ LET t == TryStorage(cfg, Flush(cfg, pending),
                          IF pending = <<>> THEN <<>>
                                            ELSE PersistCallbackLogs(cfg), f)
       IN /\ ops' = Flush(cfg, pending)
          /\ store' = ApplyOps(store, t.done, now)
          /\ threw' = t.threw
          /\ wroteAt' = IF cfg.ttl # NullTtl /\ t.done # <<>> THEN now ELSE wroteAt
    /\ pending' = <<>>
    /\ burstWrites' = burstWrites + Len(ops')
    /\ ev' = "teardown"
    /\ failed' = f
    /\ met' = [read |-> FALSE, entry |-> <<>>, at |-> 0]
    /\ UNCHANGED <<adapter, cfg, state, timerDue, now, steps, last, lastDeb, lastDebTime,
                   cleared, burst, faulty, hook, other, folded>>

\* a fresh provider is mounted under the same name and props
Construct(f) ==
    /\ ~mounted
    /\ f => faulty /\ cfg.persist
    /\ LET g == LoadInitialState(cfg, store, now, f)
       IN /\ mounted' = ~g.threw
          /\ state' = IF g.threw THEN state ELSE g.state
          /\ ops' = g.ops
          /\ store' = IF f THEN store ELSE ApplyOps(store, g.ops, now)
          /\ threw' = g.threw
    /\ pending' = <<>>
    /\ last' = NoLast
    /\ ev' = "construct"
    /\ failed' = f
    /\ met' = [read |-> cfg.persist, entry |-> store[cfg.name], at |-> now]
    /\ folded' = LoadInitialState(cfg, store, now, f).state
    /\ UNCHANGED <<adapter, cfg, timerDue, now, steps, lastDeb, lastDebTime, cleared,
                   hadPending, burst, burstWrites, faulty, wroteAt, hook, other>>

\* time passes
Tick ==
    /\ now + TickStep <= MaxTime
    /\ now' = now + TickStep
    /\ UNCHANGED <<adapter, cfg, mounted, state, pending, timerDue, store, steps, ev, last,
                   ops, lastDeb, lastDebTime, cleared, hadPending, burst,
                   burstWrites, faulty, failed, threw, wroteAt, met, hook,
                   other, folded>>

\* a consumer component renders and calls useRssm(); the provider's context
\* value is in scope exactly while the provider is mounted
UseHook ==
    /\ hook' = [called |-> TRUE,
                context |-> IF mounted THEN <<state>> ELSE <<>>,
                result |-> UseRssm(IF mounted THEN <<state>> ELSE <<>>)]
    /\ UNCHANGED <<adapter, cfg, mounted, state, pending, timerDue, store, now, steps,
                   ev, last, ops, lastDeb, lastDebTime, cleared, hadPending,
                   burst, burstWrites, faulty, failed, threw, wroteAt, met,
                   other, folded>>

\* dispatch(a) on the second provider: its render reads its own key, its
\* reducer runs under its own config and debouncedPersist
OtherDispatch(a) ==
    /\ other.mounted
    /\ steps < MaxSteps
    /\ LET c == Named(cfg, OtherName)
           rd == LoadInitialState(c, store, now, FALSE).ops
           r == Reducer(c, other.state, a)
           called == r.sched # <<>>
       IN /\ other' = [other EXCEPT
                          !.state = r.state,
                          !.pending = IF called
                                      THEN DebouncedPersist(other.pending, r.sched[1])
                                      ELSE @,
                          !.timerDue = IF called THEN now + DebounceDelay ELSE @]
          /\ ops' = rd \o r.ops
          /\ store' = ApplyOps(store, rd \o r.ops, now)
    /\ steps' = steps + 1
    /\ ev' = "other:dispatch"
    /\ UNCHANGED <<adapter, cfg, mounted, state, pending, timerDue, now, last, lastDeb,
                   lastDebTime, cleared, hadPending, burst, burstWrites, faulty,
                   failed, threw, wroteAt, met, hook, folded>>

\* the debounce timer of the second provider expires
OtherTimerFire ==
    /\ other.mounted
    /\ other.pending # <<>>
    /\ now >= other.timerDue
    /\ ops' = PersistCallback(Named(cfg, OtherName), Head(other.pending))
    /\ store' = ApplyOps(store, ops', now)
    /\ other' = [other EXCEPT !.pending = Tail(@)]
    /\ ev' = "other:timer"
    /\ UNCHANGED <<adapter, cfg, mounted, state, pending, timerDue, now, steps, last,
                   lastDeb, lastDebTime, cleared, hadPending, burst, burstWrites,
                   faulty, failed, threw, wroteAt, met, hook, folded>>

\* the second provider unmounts: its cleanup flushes its own debounced call
OtherTeardown ==
    /\ other.mounted
    /\ ops' = Flush(Named(cfg, OtherName), other.pending)
    /\ store' = ApplyOps(store, ops', now)
    /\ other' = [other EXCEPT !.mounted = FALSE, !.pending = <<>>]
    /\ ev' = "other:teardown"
    /\ UNCHANGED <<adapter, cfg, mounted, state, pending, timerDue, now, steps, last,
                   lastDeb, lastDebTime, cleared, hadPending, burst, burstWrites,
                   faulty, failed, threw, wroteAt, met, hook, folded>>

\* direct calls of the adapter: the snapshots written, the ttl options (null,
\* 0 and one second) and the keys used
AdapterValues ==
    {EmptyState, [data |-> [id |-> 1, count |-> 1], loading |-> TRUE, error |-> "e1"]}

AdapterTtls == {NullTtl, 0, 1}

AdapterKeys == {Name, ProbeKey}

\* the item a set(k, v, {ttl, encrypt}) made at time t0 has outlived its ttl at t
Outlived(w, t) ==
    w.ttl # NullTtl /\ w.ttl # 0 /\ t > w.at + w.ttl * MsPerSecond

\* storage.set(k, v, {ttl, encrypt: e})
AdapterSet(k, v, ttl, e) ==
    /\ store' = StorageSet(store, k, v, ttl, e, now)
    /\ adapter' = [call |-> "set", key |-> k, decrypt |-> FALSE, at |-> now,
                   result |-> <<>>,
                   written |-> [adapter.written EXCEPT
                                   ![k] = <<[value |-> v, at |-> now,
                                             ttl |-> ttl, encrypt |-> e]>>],
                   purged |-> [adapter.purged EXCEPT ![k] = FALSE]]
    /\ UNCHANGED <<cfg, mounted, state, pending, timerDue, now, steps, ev, last,
                   ops, lastDeb, lastDebTime, cleared, hadPending, burst,
                   burstWrites, faulty, failed, threw, wroteAt, met, hook,
                   other, folded>>

\* storage.get(k, {decrypt: d})
AdapterGet(k, d) ==
    /\ store' = StorageGet(store, k, d, now).store
    /\ adapter' = [adapter EXCEPT
                      !.call = "get", !.key = k, !.decrypt = d, !.at = now,
                      !.result = StorageGet(store, k, d, now).value,
                      !.purged[k] = \/ @
                                    \/ /\ adapter.written[k] # <<>>
                                       /\ d \/ ~adapter.written[k][1].encrypt
                                       /\ Outlived(adapter.written[k][1], now)]
    /\ UNCHANGED <<cfg, mounted, state, pending, timerDue, now, steps, ev, last,
                   ops, lastDeb, lastDebTime, cleared, hadPending, burst,
                   burstWrites, faulty, failed, threw, wroteAt, met, hook,
                   other, folded>>

\* storage.remove(k)
AdapterRemove(k) ==
    /\ store' = StorageRemove(store, k)
    /\ adapter' = [adapter EXCEPT
                      !.call = "remove", !.key = k, !.decrypt = FALSE, !.at = now,
                      !.result = <<>>,
                      !.written[k] = <<>>,
                      !.purged[k] = FALSE]
    /\ UNCHANGED <<cfg, mounted, state, pending, timerDue, now, steps, ev, last,
                   ops, lastDeb, lastDebTime, cleared, hadPending, burst,
                   burstWrites, faulty, failed, threw, wroteAt, met, hook,
                   other, folded>>

Next ==
    \/ \E a \in Actions, f \in BOOLEAN : Dispatch(a, f)
    \/ \E f \in BOOLEAN : TimerFire(f)
    \/ \E f \in BOOLEAN : Teardown(f)
    \/ \E f \in BOOLEAN : Construct(f)
    \/ Tick

Spec == Init /\ [][Next]_vars

SpecOpts == InitOpts /\ [][Next]_vars

SpecFaults == InitFaults /\ [][Next]_vars

NextHook ==
    \/ Next
    \/ UseHook

SpecHook == InitHook /\ [][NextHook]_vars

\* a pending debounced call does not stay pending for ever: use-debounce's
\* timer invokes the callback, or the provider unmounts and the cleanup
\* flushes it (a later call replaces the pending one and restarts the delay)
SpecLive ==
    /\ InitTwo
    /\ [][Next]_vars
    /\ WF_vars(TimerFire(FALSE) \/ Teardown(FALSE))

NextTwo ==
    \/ \E a \in TwoActions : Dispatch(a, FALSE)
    \/ TimerFire(FALSE)
    \/ Teardown(FALSE)
    \/ Construct(FALSE)
    \/ Tick
    \/ \E a \in TwoActions : OtherDispatch(a)
    \/ OtherTimerFire
    \/ OtherTeardown

SpecTwo == InitTwo /\ [][NextTwo]_vars

\* the storage adapter called directly, with time passing between the calls
NextStorage ==
    \/ \E k \in AdapterKeys, v \in AdapterValues, ttl \in AdapterTtls, e \in BOOLEAN :
          AdapterSet(k, v, ttl, e)
    \/ \E k \in AdapterKeys, d \in BOOLEAN : AdapterGet(k, d)
    \/ \E k \in AdapterKeys : AdapterRemove(k)
    \/ Tick

SpecStorage == InitTwo /\ [][NextStorage]_vars

----------------------------------------------------------------------------
(* Claims *)

\* the payload of the last dispatched action and the data it met
P == last.action.data
D == last.pre.data

LastIs(types) == last.action.type \in types

JustDispatched(types) == ev = "dispatch" /\ LastIs(types)

Sets == OpsOf(ops, "set")
Removes == OpsOf(ops, "remove")

\* C1 as stated: CREATE(d) or READ(d) with a payload d that passes the schema
\* yields exactly {data: d, loading: false, error: null}
C1_CreateYieldsPayload ==
    (LastIs({"CREATE", "READ"}) /\ SchemaOk(P)) =>
        state = [data |-> P, loading |-> FALSE, error |-> NoError]

\* C1 amended: CREATE(d) or READ(d) with a payload that passes the schema
\* yields {data: schema.parse(d), loading: false, error: null}, from every
\* prior state; the data is d itself when d has the schema's keys only
C1_CreateYieldsParsed ==
    (LastIs({"CREATE", "READ"}) /\ SchemaOk(P)) =>
        /\ state = [data |-> SchemaParse(P), loading |-> FALSE, error |-> NoError]
        /\ (DOMAIN P = SchemaFields => state.data = P)

C1_Witness ==
    /\ JustDispatched({"READ"})
    /\ SchemaOk(P)
    /\ "tag" \in DOMAIN P
    /\ last.pre.error # NoError

Merged == IF D # NullData THEN Merge(D, P) ELSE P

\* C3: a payload (CREATE, READ) or merged result (UPDATE) that fails the schema
\* is applied to data unchanged, with the flags a valid payload gets; the
\* validation warning is logged exactly when logging is on, and nothing is
\* logged when logging is off
C3_ValidationNeverBlocks ==
    /\ (LastIs({"CREATE", "READ"}) /\ ~SchemaOk(P)) =>
          /\ state = [data |-> P, loading |-> FALSE, error |-> NoError]
          /\ ("warn:validation" \in {last.logs[i] : i \in DOMAIN last.logs}
                <=> cfg.logging)
    /\ (LastIs({"UPDATE"}) /\ ~SchemaOk(Merged)) =>
          /\ state.data = Merged
          /\ state.loading = last.pre.loading
          /\ (~last.noop =>
                /\ state.error = NoError
                /\ ("warn:validation" \in {last.logs[i] : i \in DOMAIN last.logs}
                      <=> cfg.logging))
    /\ (~cfg.logging => last.logs = <<>>)

C3_Witness ==
    /\ JustDispatched({"UPDATE"})
    /\ D # NullData
    /\ ~last.noop
    /\ ~SchemaOk(state.data)
    /\ cfg.logging

\* C4 as stated: UPDATE(P) on present data D yields data == merge(D, P)
C4_UpdateYieldsMerge ==
    (LastIs({"UPDATE"}) /\ D # NullData) => state.data = Merge(D, P)

\* C4 amended: UPDATE(P) on present data D yields merge(D, P) when the merge
\* fails the schema or equals D, and schema.parse(merge(D, P)) otherwise; that
\* is merge(D, P) itself when it has the schema's keys only
C4_UpdateYieldsParsedMerge ==
    (LastIs({"UPDATE"}) /\ D # NullData) =>
        /\ state.data = IF SchemaOk(Merge(D, P)) /\ Merge(D, P) # D
                        THEN SchemaParse(Merge(D, P))
                        ELSE Merge(D, P)
        /\ (DOMAIN Merge(D, P) \subseteq SchemaFields => state.data = Merge(D, P))
        /\ \A f \in DOMAIN state.data :
              state.data[f] = IF f \in DOMAIN P THEN P[f] ELSE D[f]

C4_Witness ==
    /\ JustDispatched({"UPDATE"})
    /\ D # NullData
    /\ ~last.noop
    /\ \E f \in DOMAIN P : f \in DOMAIN D /\ P[f] # D[f]
    /\ \E f \in DOMAIN D : f \notin DOMAIN P /\ f \in DOMAIN state.data

\* the data the second of two UPDATE(P) meets still holds P's fields
PayloadKept == \A f \in DOMAIN P : f \in DOMAIN D /\ D[f] = P[f]

\* C5 as stated: with persistence on and data present, UPDATE(P) twice in a
\* row triggers persistence exactly once: the first schedules one debounced
\* write, the second returns the same state and schedules nothing
C5_RepeatPersistsOnce ==
    (LastIs({"UPDATE"}) /\ last.repeat /\ cfg.persist) =>
        /\ last.firstSched = 1
        /\ last.noop
        /\ last.sched = <<>>
        /\ state = last.pre

\* C5 amended: the first UPDATE(P) schedules one debounced write unless
\* merge(D, P) deep-equals D, when it schedules none; the second returns the
\* same state and schedules nothing whenever the data left by the first still
\* holds P's fields (always, for a P with the schema's keys only)
C5_RepeatPersistsAtMostOnce ==
    (LastIs({"UPDATE"}) /\ last.repeat /\ cfg.persist) =>
        /\ last.firstSched = (IF last.firstDiff THEN 1 ELSE 0)
        /\ (PayloadKept =>
              /\ last.noop
              /\ last.sched = <<>>
              /\ state = last.pre)
        /\ (DOMAIN P \subseteq SchemaFields => PayloadKept)

C5_Witness ==
    /\ JustDispatched({"UPDATE"})
    /\ last.repeat
    /\ cfg.persist
    /\ last.firstSched = 1
    /\ last.noop

Fallback == GetInitialState(cfg, EmptyStore, now).state

\* C7 as stated: once DESTROY or RESET has been processed the durable record is
\* absent and stays absent, through timer firings and teardown, until a later
\* CREATE, READ or state-changing UPDATE / SET_LOADING / SET_ERROR; a fresh
\* instance constructed meanwhile starts from initialData (or null)
C7_ClearedStaysAbsent ==
    cleared =>
        /\ store[cfg.name] = <<>>
        /\ (ev = "construct" => state = Fallback)

\* C8: debouncedPersist calls coalesce: at most one call is pending, it carries
\* the state produced by the latest state-changing UPDATE, SET_LOADING or
\* SET_ERROR and is due one delay after that action; when the timer fires, the
\* n calls of the burst have led to exactly one storage.set, of that state
C8_DebounceCoalesces ==
    /\ Len(pending) <= 1
    /\ burstWrites <= 1
    /\ (pending # <<>> =>
          /\ pending[1] = lastDeb
          /\ timerDue = lastDebTime + DebounceDelay
          /\ burst >= 1
          /\ burstWrites = 0)
    /\ (ev = "timer" =>
          /\ ops = <<SetOp(cfg.name, lastDeb, TtlOpt(cfg), cfg.encrypt)>>
          /\ burstWrites = 1
          /\ now >= lastDebTime + DebounceDelay)

C8_Witness ==
    /\ ev = "timer"
    /\ burst >= 2
    /\ pending = <<>>

\* C9 as stated: whenever the debounced callback runs (timer expiry or
\* teardown flush) the snapshot it writes is the in-memory state at that moment
C9_FlushWritesCurrentState ==
    (ev \in {"timer", "teardown"} /\ Sets # <<>>) => Sets[1].value = state

\* C10: a debounced write pending at teardown is performed by the teardown:
\* one storage.set of the latest pending state, which the store then holds,
\* and nothing is left pending; no wait for the delay is involved
C10_TeardownFlushes ==
    (ev = "teardown" /\ hadPending) =>
        /\ ops = <<SetOp(cfg.name, lastDeb, TtlOpt(cfg), cfg.encrypt)>>
        /\ store[cfg.name] # <<>>
        /\ store[cfg.name][1].item.value = lastDeb
        /\ pending = <<>>
        /\ ~mounted

C10_Witness ==
    /\ ev = "teardown"
    /\ hadPending
    /\ now < timerDue
    /\ lastDeb.data # NullData

\* C11 as stated: with persistence on and no TTL, after instance A dispatches
\* CREATE(d) as its last action and is torn down, a fresh instance of the same
\* name starts with the data that CREATE left in A's state
C11_RoundTrip ==
    [][(~mounted /\ mounted' /\ cfg.persist /\ cfg.ttl = NullTtl
          /\ last.action.type = "CREATE")
        => state'.data = state.data]_vars

C13_RecordMirrorsState ==
    (/\ cfg.persist /\ cfg.ttl = NullTtl /\ ~faulty
     /\ mounted
     /\ pending = <<>>
     /\ ~LastIs({"NONE"})
     /\ ~last.noop) =>
        IF LastIs({"DESTROY", "RESET"})
        THEN store[cfg.name] = <<>>
        ELSE /\ store[cfg.name] # <<>>
             /\ store[cfg.name][1].item.value = state

\* C14: when the storage write or removal of a CREATE, READ, DESTROY or RESET
\* throws, the state after the dispatch is the one a successful call gives
\* (error null, not an error raised by the failure) and no exception leaves
\* the reducer; when the debounced write throws (timer or teardown flush) no
\* exception leaves the callback and the state stays as the last action left it
C14_PersistFailureNonFatal ==
    failed =>
        /\ ~threw
        /\ (ev = "dispatch" /\ LastIs({"CREATE", "READ"}) =>
              state = [data |-> IF SchemaOk(P) THEN SchemaParse(P) ELSE P,
                       loading |-> FALSE, error |-> NoError])
        /\ (ev = "dispatch" /\ LastIs({"DESTROY", "RESET"}) => state = EmptyState)
        /\ (ev \in {"dispatch", "timer", "teardown"} =>
              /\ state = Reducer(cfg, last.pre, last.action).state
              /\ (state.error # last.pre.error =>
                    \/ state.error = NoError
                    \/ LastIs({"SET_ERROR"}) /\ state.error = last.action.msg))

C14_Witness ==
    /\ JustDispatched({"CREATE"})
    /\ failed
    /\ last.pre.error # NoError
    /\ store[cfg.name] = <<>>

\* C15 as stated: with persistence on and a stored record (not expired) whose
\* data is non-null, the instance starts from that record, its data parsed by
\* the schema or kept as-is when it fails the schema; with no record, or
\* persistence off, it starts with {data: initialData or null, loading: false,
\* error: null}
C15_InitialLoad ==
    (ev \in {"init", "construct"} /\ ~failed) =>
        /\ (/\ cfg.persist
            /\ met.entry # <<>>
            /\ met.entry[1].item.value.data # NullData
            /\ (cfg.ttl = NullTtl \/ met.at <= wroteAt + cfg.ttl * MsPerSecond)) =>
              state = [met.entry[1].item.value EXCEPT
                          !.data = IF SchemaOk(@) THEN SchemaParse(@) ELSE @]
        /\ (~cfg.persist \/ met.entry = <<>>) =>
              state = [data |-> cfg.initialData, loading |-> FALSE,
                       error |-> NoError]

PersistOn == [cfg EXCEPT !.persist = TRUE]

\* C17: with persist off no step (construction, dispatch, timer, teardown)
\* makes an adapter call, nothing is scheduled or stored, the instance starts
\* from initialData, and every dispatch yields the state, and the same-state
\* short-circuit, that the reducer yields with persist on
C17_NoPersistNoStorage ==
    ~cfg.persist =>
        /\ ops = <<>>
        /\ store = EmptyStore
        /\ pending = <<>>
        /\ last.sched = <<>>
        /\ ~met.read
        /\ (ev \in {"init", "construct"} =>
              state = [data |-> cfg.initialData, loading |-> FALSE,
                       error |-> NoError])
        /\ (~LastIs({"NONE"}) =>
              /\ state = Reducer(PersistOn, last.pre, last.action).state
              /\ last.noop = Reducer(PersistOn, last.pre, last.action).noop)

C17_Witness ==
    /\ ~cfg.persist
    /\ ev = "teardown"
    /\ LastIs({"SET_ERROR"})
    /\ ~last.noop
    /\ last.pre.data # NullData
    /\ steps >= 2

\* C18 as stated: after any SET_ERROR(e) dispatch, from any prior state, the
\* state has error == e and loading == false, and the data it had before
C18_SetErrorForcesLoadingOff ==
    LastIs({"SET_ERROR"}) =>
        /\ state.error = last.action.msg
        /\ state.loading = FALSE
        /\ state.data = D

\* C18 amended: after SET_ERROR(e) the state has error == e and the data it
\* had before; loading is false when the prior error differed from e, and the
\* state is the prior state, loading included, when the prior error was e
C18_SetErrorForcesLoadingOffOnChange ==
    LastIs({"SET_ERROR"}) =>
        /\ state.error = last.action.msg
        /\ state.data = D
        /\ (last.pre.error # last.action.msg => state.loading = FALSE)
        /\ (last.pre.error = last.action.msg =>
              /\ state = last.pre
              /\ last.noop
              /\ last.sched = <<>>)

C18_Witness ==
    /\ JustDispatched({"SET_ERROR"})
    /\ last.pre.loading
    /\ last.pre.error # last.action.msg
    /\ D # NullData

\* C19: SET_LOADING(v) yields the prior state with loading == v and makes no
\* storage call of its own; when loading already equals v it returns the very
\* state it was given and schedules nothing; dispatched twice in a row, the
\* second returns the state the first left, and the two together call
\* debouncedPersist at most once
C19_SetLoadingIdempotent ==
    LastIs({"SET_LOADING"}) =>
        /\ state = [last.pre EXCEPT !.loading = last.action.flag]
        /\ (ev = "dispatch" => Sets = <<>> /\ Removes = <<>>)
        /\ Len(last.sched) <= 1
        /\ (last.pre.loading = last.action.flag =>
              /\ last.noop
              /\ last.sched = <<>>
              /\ state = last.pre)
        /\ (last.again =>
              /\ last.noop
              /\ last.sched = <<>>
              /\ state = last.pre
              /\ last.firstSched + Len(last.sched) <= 1)

C19_Witness ==
    /\ JustDispatched({"SET_LOADING"})
    /\ last.again
    /\ last.action.flag
    /\ last.firstSched = 1
    /\ cfg.persist
    /\ pending # <<>>

\* C20: in every step of a mounted instance (dispatch, timer firing, teardown)
\* in which error changes to a non-null value, the step is the dispatch of
\* SET_ERROR with that value; a validation failure or a storage call that
\* throws never changes error to a non-null value
C20_ErrorOnlyBySetError ==
    [][(mounted /\ state'.error # state.error /\ state'.error # NoError) =>
          /\ ev' = "dispatch"
          /\ last'.action.type = "SET_ERROR"
          /\ last'.action.msg = state'.error]_vars

C20_Witness ==
    /\ JustDispatched({"SET_ERROR"})
    /\ faulty
    /\ state.error # NoError
    /\ last.pre.error = NoError
    /\ D # NullData
    /\ ~SchemaOk(D)
    /\ cfg.initialData = NullData
    /\ store[cfg.name] = <<>>

\* the seven entries of the actions object
SevenActions ==
    {"create", "read", "update", "destroy", "setLoading", "setError", "reset"}

\* C21: useRssm() called with no provider of the factory in scope throws an
\* error whose message is "<name> must be used within <name>Provider" and
\* returns nothing; with a provider in scope it returns the data, loading and
\* error of the provider's state and exactly the seven actions, each of which
\* dispatches its own action type, and together they dispatch every action
\* of the closed set of types
C21_AccessorGuard ==
    hook.called =>
        /\ (hook.context = <<>> =>
              /\ hook.result.threw
              /\ hook.result.value = <<>>
              /\ hook.result.message =
                    <<FactoryName, " must be used within ", FactoryName,
                      "Provider">>)
        /\ (hook.context # <<>> =>
              /\ ~hook.result.threw
              /\ Len(hook.result.value) = 1
              /\ DOMAIN hook.result.value[1] =
                    {"data", "loading", "error", "actions"}
              /\ hook.result.value[1].data = hook.context[1].data
              /\ hook.result.value[1].loading = hook.context[1].loading
              /\ hook.result.value[1].error = hook.context[1].error
              /\ DOMAIN hook.result.value[1].actions = SevenActions
              /\ hook.result.value[1].actions =
                    [create |-> "CREATE", read |-> "READ", update |-> "UPDATE",
                     destroy |-> "DESTROY", setLoading |-> "SET_LOADING",
                     setError |-> "SET_ERROR", reset |-> "RESET"]
              /\ HookActions = {a \in Actions : a.type # "UNKNOWN"})

C21_Witness ==
    /\ hook.called
    /\ hook.context = <<>>
    /\ hook.result.threw
    /\ ~mounted
    /\ steps >= 1

\* the steps of the second provider
OtherEvents == {"other:dispatch", "other:timer", "other:teardown"}

\* C22: no dispatch, timer firing or teardown of one provider changes the
\* in-memory state, the pending debounced write (and its due time) or the
\* durable record of the provider of the other name, in any interleaving
C22_InstancesIndependent ==
    [][/\ (ev' \in OtherEvents =>
              /\ state' = state
              /\ mounted' = mounted
              /\ pending' = pending
              /\ timerDue' = timerDue
              /\ store'[Name] = store[Name])
       /\ (ev' \notin OtherEvents =>
              /\ other' = other
              /\ store'[OtherName] = store[OtherName])]_vars

C22_Witness ==
    /\ ev = "other:timer"
    /\ pending # <<>>
    /\ store[Name] = <<>>
    /\ store[OtherName] # <<>>
    /\ store[OtherName][1].item.value = other.state
    /\ other.state # state

\* C23 as stated: the store is read at construction only: a dispatch that
\* changes the state (and the re-render that follows it), a timer firing and
\* a teardown make no storage.get call
C23_ReadOnceAtConstruction ==
    (/\ cfg.persist
     /\ \/ ev \in {"timer", "teardown"}
        \/ ev = "dispatch" /\ ~last.noop) =>
        OpsOf(ops, "get") = <<>>

C25_StateIsFoldOfActions ==
    /\ state = folded
    /\ (~LastIs({"NONE"}) => state = Reducer(cfg, last.pre, last.action).state)

C25_Witness ==
    /\ ev = "timer"
    /\ steps >= 2
    /\ pending = <<>>
    /\ store[cfg.name] # <<>>
    /\ store[cfg.name][1].item.value # state
    /\ state = folded

\* the debounced callback has just written the latest state handed to
\* debouncedPersist
WroteLatest ==
    /\ ev \in {"timer", "teardown"}
    /\ Sets = <<SetOp(cfg.name, lastDeb, TtlOpt(cfg), cfg.encrypt)>>
    /\ store[cfg.name] # <<>>
    /\ store[cfg.name][1].item.value = lastDeb

\* C26: whenever a debounced write is pending, a durable write of the latest
\* state handed to debouncedPersist (the pending one, or a newer one that
\* replaced it) eventually happens, given that the timer eventually fires or
\* the provider is torn down
C26_PendingWriteHappens == (pending # <<>>) ~> WroteLatest

C26_Witness ==
    /\ WroteLatest
    /\ ev = "timer"
    /\ burst >= 2
    /\ lastDeb = state
    /\ now > lastDebTime + DebounceDelay

\* C27 as stated: with persist and encrypt on, after instance A dispatches
\* CREATE(d) as its last action and is torn down, leaving in the store the
\* record of the state CREATE produced (TTL not elapsed), a fresh instance of
\* the same name and props starts with the data CREATE left in A's state
C27_EncryptRoundTrip ==
    [][(/\ ~mounted /\ mounted'
        /\ cfg.persist /\ cfg.encrypt
        /\ last.action.type = "CREATE"
        /\ store[cfg.name] # <<>>
        /\ store[cfg.name][1].item.value = state
        /\ (cfg.ttl = NullTtl \/ now <= wroteAt + cfg.ttl * MsPerSecond))
       => state'.data = state.data]_vars

\* C28 as stated: UPDATE(P) on absent data yields data = P, error null and
\* loading unchanged, without the short-circuit, and with persistence on
\* schedules one debounced write
C28_UpdateOnNullUsesPayload ==
    (LastIs({"UPDATE"}) /\ D = NullData) =>
        /\ state.data = P
        /\ state.error = NoError
        /\ state.loading = last.pre.loading
        /\ ~last.noop
        /\ (cfg.persist => Len(last.sched) = 1)

\* C28 amended: UPDATE(P) on absent data yields schema.parse(P) when P passes
\* the schema and P itself otherwise (P itself whenever P has the schema's keys
\* only), error null and loading unchanged, without the short-circuit, and
\* schedules one debounced write of the new state exactly when persistence is on
C28_UpdateOnNullUsesParsedPayload ==
    (LastIs({"UPDATE"}) /\ D = NullData) =>
        /\ state.data = IF SchemaOk(P) THEN SchemaParse(P) ELSE P
        /\ (DOMAIN P \subseteq SchemaFields => state.data = P)
        /\ state.error = NoError
        /\ state.loading = last.pre.loading
        /\ ~last.noop
        /\ last.sched = IF cfg.persist THEN <<state>> ELSE <<>>

C28_Witness ==
    /\ JustDispatched({"UPDATE"})
    /\ D = NullData
    /\ DOMAIN P = {}
    /\ last.pre.error # NoError
    /\ cfg.persist
    /\ pending = <<state>>

\* C29: a dispatch that short-circuits (UPDATE merging to the current data,
\* SET_LOADING with the current flag, SET_ERROR with the current error) leaves
\* the state as it was, a non-null error included, schedules nothing, and
\* leaves a pending debounced write and its timer as they were
C29_NoOpFrame ==
    [][(/\ ev' = "dispatch"
        /\ steps' = steps + 1
        /\ last'.action.type \in {"UPDATE", "SET_LOADING", "SET_ERROR"}
        /\ last'.noop)
       => /\ state' = state
          /\ last'.sched = <<>>
          /\ pending' = pending
          /\ timerDue' = timerDue
          /\ OpsOf(ops', "set") = <<>>
          /\ OpsOf(ops', "remove") = <<>>]_vars

C29_Witness ==
    /\ JustDispatched({"UPDATE"})
    /\ last.noop
    /\ state.error # NoError
    /\ pending # <<>>

\* C30: an action of a type outside CREATE, READ, UPDATE, DESTROY,
\* SET_LOADING, SET_ERROR, RESET leaves the state as it was, calls neither set
\* nor remove, schedules no debounced write and leaves a pending one alone;
\* every record that has not expired stays in the store as it was
C30_UnknownTypeFrame ==
    [][(/\ ev' = "dispatch"
        /\ steps' = steps + 1
        /\ last'.action.type \notin ActionTypes)
       => /\ state' = state
          /\ last'.noop
          /\ last'.sched = <<>>
          /\ pending' = pending
          /\ timerDue' = timerDue
          /\ OpsOf(ops', "set") = <<>>
          /\ OpsOf(ops', "remove") = <<>>
          /\ \A k \in Keys :
                \/ store'[k] = store[k]
                \/ /\ store[k] # <<>>
                   /\ DecodeOk(store[k][1], FALSE)
                   /\ Expired(Decode(store[k][1], FALSE), now)]_vars

C30_Witness ==
    /\ JustDispatched({"UNKNOWN"})
    /\ state.data # NullData
    /\ cfg.persist
    /\ pending # <<>>

\* the state three dispatches lead to from the current one: CREATE or DESTROY,
\* then SET_ERROR(e), then SET_LOADING(l)
AfterThree(present, l, e) ==
    LET s1 == Reducer(cfg, state,
                      IF present
                      THEN Act("CREATE", [id |-> 1, count |-> 1], FALSE, NoError)
                      ELSE Act("DESTROY", NullData, FALSE, NoError)).state
        s2 == Reducer(cfg, s1, Act("SET_ERROR", NullData, FALSE, e)).state
    IN Reducer(cfg, s2, Act("SET_LOADING", NullData, l, NoError)).state

\* C31: from the initial state, and from every state the instance reaches,
\* each of the eight combinations of data present or absent, loading true or
\* false and error null or non-null is the state some sequence of actions
\* leads to
C31_FlagsOrthogonal ==
    \A present \in BOOLEAN, l \in BOOLEAN, e \in ErrorMsgs \cup {NoError} :
        LET s == AfterThree(present, l, e)
        IN /\ (s.data # NullData) = present
           /\ s.loading = l
           /\ s.error = e

C31_Witness ==
    /\ ev = "dispatch"
    /\ mounted
    /\ state.data # NullData
    /\ state.loading
    /\ state.error # NoError

\* C32: SET_LOADING leaves data and error as they were; SET_ERROR leaves data
\* as it was; UPDATE leaves loading as it was, and an UPDATE that changes data
\* leaves error null
C32_FlagAndMergeFrame ==
    /\ LastIs({"SET_LOADING"}) =>
          /\ state.data = last.pre.data
          /\ state.error = last.pre.error
    /\ LastIs({"SET_ERROR"}) => state.data = last.pre.data
    /\ LastIs({"UPDATE"}) =>
          /\ state.loading = last.pre.loading
          /\ (state.data # last.pre.data => state.error = NoError)

C32_Witness ==
    /\ JustDispatched({"UPDATE"})
    /\ last.pre.loading
    /\ state.data # last.pre.data
    /\ last.pre.data # NullData
    /\ state.loading

\* the props with the logging flag set to b
Logging(b) == [cfg EXCEPT !.logging = b]

\* the reducer's result but for its logger calls
Silent(r) == [state |-> r.state, noop |-> r.noop, ops |-> r.ops, sched |-> r.sched]

\* C33: at every state an instance reaches, each operation (reducer on any
\* action, initial-state load, debounced callback, with the storage call
\* succeeding or failing) yields the same state and the same storage calls
\* with logging on and with logging off, so two runs that differ in logging
\* alone stay equal step by step; with logging off no operation calls the
\* logger
C33_LoggingIrrelevant ==
    /\ \A a \in Actions :
          LET on == Reducer(Logging(TRUE), state, a)
              off == Reducer(Logging(FALSE), state, a)
          IN /\ Silent(on) = Silent(off)
             /\ off.logs = <<>>
             /\ \A f \in BOOLEAN :
                   LET ton == TryStorage(Logging(TRUE), on.ops, on.logs, f)
                       toff == TryStorage(Logging(FALSE), off.ops, off.logs, f)
                   IN /\ ton.done = toff.done
                      /\ ton.threw = toff.threw
                      /\ toff.logs = <<>>
    /\ \A f \in BOOLEAN :
          LET on == LoadInitialState(Logging(TRUE), store, now, f)
              off == LoadInitialState(Logging(FALSE), store, now, f)
          IN /\ on.state = off.state
             /\ on.ops = off.ops
             /\ on.threw = off.threw
             /\ off.logs = <<>>
    /\ \A i \in 1..Len(pending), f \in BOOLEAN :
          LET on == TryStorage(Logging(TRUE),
                               PersistCallback(Logging(TRUE), pending[i]),
                               PersistCallbackLogs(Logging(TRUE)), f)
              off == TryStorage(Logging(FALSE),
                                PersistCallback(Logging(FALSE), pending[i]),
                                PersistCallbackLogs(Logging(FALSE)), f)
          IN /\ on.done = off.done
             /\ on.threw = off.threw
             /\ off.logs = <<>>
    /\ (~cfg.logging /\ ev = "dispatch") => last.logs = <<>>

C33_Witness ==
    /\ JustDispatched({"CREATE"})
    /\ ~cfg.logging
    /\ cfg.persist
    /\ ~SchemaOk(P)
    /\ state.data = P
    /\ last.logs = <<>>
    /\ Len(Reducer(Logging(TRUE), last.pre, last.action).logs) = 3

\* the latest set under the key of the latest adapter call, <<>> if none
W == adapter.written[adapter.key]

\* the round trip of C34 and C35 at the key of the latest get
RoundTripAt(keys) ==
    (adapter.call = "get" /\ adapter.key \in keys) =>
        /\ (/\ W # <<>>
            /\ adapter.decrypt = W[1].encrypt
            /\ ~Outlived(W[1], adapter.at)) => adapter.result = <<W[1].value>>
        /\ W = <<>> => adapter.result = <<>>

\* C34 as stated: for every key, get(k, {decrypt: e}) after set(k, v, {ttl,
\* encrypt: e}) and no later than the expiry returns v, at any time when ttl is
\* null or 0; get(k) after remove(k) returns null
C34_StorageRoundTrip == RoundTripAt(Keys)

\* lazy expiry at the key of the latest get: an item written with a ttl and
\* readable under the decrypt flag given is returned up to its expiry time;
\* after it, get returns null and leaves no item in the store, and so does
\* every get that follows until the next set
LazyExpiryAt(keys) ==
    (adapter.call = "get" /\ adapter.key \in keys /\ W # <<>>) =>
        /\ (/\ W[1].ttl # NullTtl /\ W[1].ttl # 0
            /\ adapter.decrypt \/ ~W[1].encrypt) =>
              IF Outlived(W[1], adapter.at)
              THEN adapter.result = <<>> /\ store[adapter.key] = <<>>
              ELSE adapter.result = <<W[1].value>>
        /\ adapter.purged[adapter.key] =>
              adapter.result = <<>> /\ store[adapter.key] = <<>>

\* C35 as stated: an item written with ttl seconds at t0 is returned by get
\* at every time up to t0 + ttl * 1000 ms; at any later time get returns null
\* and removes the item, and every later get returns null until the next set
C35_LazyExpiry == LazyExpiryAt(Keys)

\* C36: the record in the store always carries the expiry of the latest write
\* that took effect: the time of that write plus ttl seconds when a ttl is set
\* (whether the write was immediate or debounced), and no expiry without a
\* ttl; a DESTROY or RESET whose removal succeeds leaves no record, whatever
\* the expiry of the record it finds
C36_ExpiryFromLatestWrite ==
    /\ store[cfg.name] # <<>> =>
          store[cfg.name][1].item.expires =
              IF cfg.ttl = NullTtl THEN 0 ELSE wroteAt + cfg.ttl * MsPerSecond
    /\ (JustDispatched({"DESTROY", "RESET"}) /\ cfg.persist /\ ~failed) =>
          store[cfg.name] = <<>>

C36_Witness ==
    /\ ev = "timer"
    /\ cfg.ttl # NullTtl
    /\ last.action.type = "UPDATE"
    /\ last.pre.data # NullData
    /\ wroteAt > 0
    /\ store[cfg.name] # <<>>
    /\ store[cfg.name][1].item.expires = now + cfg.ttl * MsPerSecond

\* the record storage.get(name) handed to the latest construction, <<>> when
\* it returned null (no record, an expired one, one it cannot decode, or a
\* read that threw)
Stored ==
    IF /\ ev = "construct" /\ met.read /\ ~failed
       /\ met.entry # <<>>
       /\ DecodeOk(met.entry[1], FALSE)
       /\ ~Expired(Decode(met.entry[1], FALSE), met.at)
    THEN <<Decode(met.entry[1], FALSE).value>>
    ELSE <<>>

\* C37: a construction whose read returns a record with non-null data starts
\* from that record as it is: data, loading and error are the stored ones,
\* whatever initialData is
C37_AdoptsStoredSnapshot ==
    (Stored # <<>> /\ Stored[1].data # NullData) =>
        /\ state = Stored[1]
        /\ state.loading = Stored[1].loading
        /\ state.error = Stored[1].error

C37_Witness ==
    /\ Stored # <<>>
    /\ Stored[1].data # NullData
    /\ Stored[1].error # NoError
    /\ cfg.initialData # NullData
    /\ state.data # cfg.initialData
    /\ state.error = Stored[1].error

C39_ConstructLeavesStore ==
    [][(~mounted /\ mounted') => store' = store]_vars

\* C39 amended: construction calls neither set nor remove; it leaves the
\* store as it is (no record stays no record, a record that has not expired
\* keeps its value and its expiry), except that its read removes a record
\* whose ttl has elapsed
C39_ConstructOnlyPurgesExpired ==
    [][(~mounted /\ mounted') =>
          /\ OpsOf(ops', "set") = <<>>
          /\ OpsOf(ops', "remove") = <<>>
          /\ wroteAt' = wroteAt
          /\ \A k \in Keys :
                \/ store'[k] = store[k]
                \/ /\ k = cfg.name
                   /\ store[k] # <<>>
                   /\ Expired(Decode(store[k][1], FALSE), now)
                   /\ store'[k] = <<>>
          /\ (\/ store[cfg.name] = <<>>
              \/ ~Expired(Decode(store[cfg.name][1], FALSE), now))
                => store' = store]_vars

C39_Witness ==
    /\ ev = "construct"
    /\ mounted
    /\ steps = 0
    /\ cfg.persist
    /\ cfg.initialData # NullData
    /\ state.data = cfg.initialData
    /\ met.entry = <<>>
    /\ store[cfg.name] = <<>>

\* C40: a teardown with nothing pending makes no adapter call and leaves the
\* store as it is; a teardown makes at most one call, a set (the flush of the
\* pending write, which is then no longer pending, so that the burst has been
\* written once at most); while the instance stays unmounted no timer fires,
\* nothing is pending and the store does not change
C40_TeardownFrame ==
    [][/\ (mounted /\ ~mounted') =>
             /\ (pending = <<>> => ops' = <<>> /\ store' = store)
             /\ Len(ops') <= 1
             /\ OpsOf(ops', "remove") = <<>>
             /\ pending' = <<>>
             /\ burstWrites' <= 1
       /\ (~mounted /\ ~mounted') =>
             /\ store' = store
             /\ ops' = ops
             /\ pending' = <<>>
             /\ ev' # "timer"]_vars

C40_Witness ==
    /\ ev = "teardown"
    /\ ~mounted
    /\ ~hadPending
    /\ ops = <<>>
    /\ burstWrites = 1
    /\ store[cfg.name] # <<>>
    /\ now >= timerDue

====
